---- MODULE Spec2Model ----
(***************************************************************************)
(* Model of instagram_date_fixer.py: the date parser, the per-post record  *)
(* locator with its path resolution, the backup-guarded metadata writer    *)
(* and the document loop of main/process_html_file.                        *)
(*                                                                         *)
(* Strings are modelled by their structure.  A date-like string is a       *)
(* record tagged with the grammar it is written in ("exif" for             *)
(* "2024:09:24 15:42:54", "disp" for "Aug 06, 2012 4:13 pm"); any other    *)
(* string is a literal.  A datetime is a different record (year, month,    *)
(* ...), so that parsing and formatting are conversions.  A path is the    *)
(* sequence of its segments (pathlib's .parts).                            *)
(***************************************************************************)
EXTENDS Integers, Sequences, FiniteSets, TLC

VARIABLES
    fs,                 \* the filesystem: path -> file or NoFile
    html_files,         \* main: the enumerated documents (paths)
    file_idx,           \* main: index of the document being processed
    success_count,      \* main: running total
    html_file_path,     \* process_html_file / find_images_in_html argument
    html_content,       \* the parsed content of the current document
    images_with_dates,  \* the records located in the current document
    rec_idx,            \* process_html_file: index of the record being written
    doc_success,        \* process_html_file: its local success_count
    page_date,          \* result of find_date_in_html
    pc,                 \* position of main / process_html_file
    wpc,                \* position of update_image_metadata
    image_path,         \* update_image_metadata argument
    date_taken,         \* update_image_metadata argument
    exif_dict,          \* update_image_metadata local
    result,             \* update_image_metadata return value
    orig_file,          \* history: the target as it was when the call started
    fail_step,          \* history: the step of the call that raised, or "none"
    calls,              \* history: number of calls of update_image_metadata
    true_returns,       \* history: number of calls that returned True
    resolved,           \* history: records located, summed over documents
    attempts            \* history: per document, times process_html_file ran

vars == <<fs, html_files, file_idx, success_count, html_file_path, html_content,
          images_with_dates, rec_idx, doc_success, page_date, pc, wpc,
          image_path, date_taken, exif_dict, result, orig_file, fail_step,
          calls, true_returns, resolved, attempts>>

---------------------------------------------------------------------------
(* Bounds of the model *)

MaxRows == 2        \* rows of a post's metadata table
MaxPosts == 2       \* post containers of a document (locator inputs)
MaxDocs == 2        \* documents of a run
MaxRecs == 2        \* post containers of a document of a run
MaxCalls == 2       \* direct calls of update_image_metadata

---------------------------------------------------------------------------
(* Strings and datetimes *)

None == [f |-> "None"]

Lit(s) == [f |-> "lit", s |-> s]

\* the string "Y:m:d H:M:S"
ExifStr(Y, m, d, H, M, S) ==
    [f |-> "exif", Y |-> Y, m |-> m, d |-> d, H |-> H, M |-> M, S |-> S]

\* the string "b d, Y I:M p"
DispStr(b, d, Y, I, M, p) ==
    [f |-> "disp", b |-> b, d |-> d, Y |-> Y, I |-> I, M |-> M, p |-> p]

datetime(year, month, day, hour, minute, second) ==
    [year |-> year, month |-> month, day |-> day,
     hour |-> hour, minute |-> minute, second |-> second]

MonthAbbr == <<"Jan", "Feb", "Mar", "Apr", "May", "Jun",
               "Jul", "Aug", "Sep", "Oct", "Nov", "Dec">>

IsLeap(y) == (y % 4 = 0 /\ y % 100 # 0) \/ y % 400 = 0

DaysInMonth(y, m) ==
    IF m = 2 THEN (IF IsLeap(y) THEN 29 ELSE 28)
    ELSE IF m \in {4, 6, 9, 11} THEN 30 ELSE 31

\* datetime(...) raises ValueError outside these ranges
ValidDate(y, m, d, H, M, S) ==
    /\ y \in 1..9999
    /\ m \in 1..12
    /\ d >= 1 /\ d <= DaysInMonth(y, m)
    /\ H \in 0..23
    /\ M \in 0..59
    /\ S \in 0..59

\* datetime.strptime(date_str, "%Y:%m:%d %H:%M:%S"); None stands for ValueError
StrptimeExif(date_str) ==
    IF date_str.f = "exif"
       /\ ValidDate(date_str.Y, date_str.m, date_str.d,
                    date_str.H, date_str.M, date_str.S)
    THEN datetime(date_str.Y, date_str.m, date_str.d,
                  date_str.H, date_str.M, date_str.S)
    ELSE None

\* datetime.strptime(date_str, "%b %d, %Y %I:%M %p"); None stands for ValueError
StrptimeDisplay(date_str) ==
    IF date_str.f = "disp"
       /\ \E i \in 1..12 : MonthAbbr[i] = date_str.b
       /\ date_str.I \in 1..12
       /\ date_str.p \in {"am", "pm"}
    THEN LET month == CHOOSE i \in 1..12 : MonthAbbr[i] = date_str.b
             hour == (date_str.I % 12) + (IF date_str.p = "pm" THEN 12 ELSE 0)
         IN IF ValidDate(date_str.Y, month, date_str.d, hour, date_str.M, 0)
            THEN datetime(date_str.Y, month, date_str.d, hour, date_str.M, 0)
            ELSE None
    ELSE None

parse_instagram_date(date_str) ==
    IF StrptimeExif(date_str) # None THEN StrptimeExif(date_str)
    ELSE IF StrptimeDisplay(date_str) # None THEN StrptimeDisplay(date_str)
    ELSE None

\* date_taken.strftime("%Y:%m:%d %H:%M:%S")
Strftime(dt) == ExifStr(dt.year, dt.month, dt.day, dt.hour, dt.minute, dt.second)

LeapsBefore(y) == ((y - 1) \div 4) - ((y - 1) \div 100) + ((y - 1) \div 400)

RECURSIVE DaysBeforeMonth(_, _)
DaysBeforeMonth(y, m) ==
    IF m = 1 THEN 0 ELSE DaysBeforeMonth(y, m - 1) + DaysInMonth(y, m - 1)

\* date_taken.timestamp(): seconds since the epoch (the local zone taken as UTC)
Timestamp(dt) ==
    LET days == 365 * (dt.year - 1970) + LeapsBefore(dt.year) - LeapsBefore(1970)
                + DaysBeforeMonth(dt.year, dt.month) + (dt.day - 1)
    IN days * 86400 + dt.hour * 3600 + dt.minute * 60 + dt.second

---------------------------------------------------------------------------
(* The markup tree *)

WS == [f |-> "ws"]                      \* a run of whitespace
NoNode == [tag |-> "none"]              \* find() found nothing
Div(text) == [tag |-> "div", text |-> text]
Img(hasSrc, src) == [tag |-> "img", hasSrc |-> hasSrc, src |-> src]

\* node.get_text(strip=True): whitespace is dropped, the rest concatenated
GetText(node) ==
    LET w == SelectSeq(node.text, LAMBDA p : p.f # "ws")
    IN IF Len(w) = 0 THEN Lit("")
       ELSE IF Len(w) = 1 THEN w[1]
       ELSE [f |-> "cat", parts |-> w]

\* a <tr>: ncells is len(row.find_all('td')); label_div is
\* cells[0].find('div', class_='_a6-q'); value_container tells whether
\* cells[1].find('div') found a block; value_div is what
\* value_container.find('div', class_='_a6-q') finds inside it
Row(ncells, label_div, value_container, value_div) ==
    [ncells |-> ncells, label_div |-> label_div,
     value_container |-> value_container, value_div |-> value_div]

\* a post container: date_div is post.find('div', class_='_3-94 _a6-o'),
\* rows is post.find_all('tr'), img_tag is post.find('img', class_='_a6_o _3-96')
Post(date_div, rows, img_tag) ==
    [date_div |-> date_div, rows |-> rows, img_tag |-> img_tag]

ValueDiv(row) == IF row.value_container THEN row.value_div ELSE NoNode

---------------------------------------------------------------------------
(* The filesystem *)

NoFile == [pix |-> "absent"]

Exists(fsys, p) == p \in DOMAIN fsys /\ fsys[p] # NoFile

---------------------------------------------------------------------------
(* find_date_in_html: the page-level date *)

\* soup.find('div', class_='_3-94 _a6-o'): the first such block of the page
RECURSIVE FirstDateDiv(_, _)
FirstDateDiv(posts, i) ==
    IF i > Len(posts) THEN NoNode
    ELSE IF posts[i].date_div # NoNode THEN posts[i].date_div
    ELSE FirstDateDiv(posts, i + 1)

\* soup.find_all('tr'): the rows of the page in document order
RECURSIVE AllRows(_, _)
AllRows(posts, i) ==
    IF i > Len(posts) THEN <<>> ELSE posts[i].rows \o AllRows(posts, i + 1)

\* the loop of lines 54-80; it returns at the first 'Date taken' row with a value
RECURSIVE PageScanRows(_, _)
PageScanRows(rows, i) ==
    IF i > Len(rows) THEN None
    ELSE LET row == rows[i]
             label_div == row.label_div
             value_div == ValueDiv(row)
         IN IF row.ncells >= 2 /\ label_div # NoNode
               /\ GetText(label_div) = Lit("Date taken") /\ value_div # NoNode
               /\ GetText(value_div) # Lit("")
            THEN parse_instagram_date(GetText(value_div))
            ELSE PageScanRows(rows, i + 1)

find_date_in_html(posts) ==
    LET date_div == FirstDateDiv(posts, 1)
        date == IF date_div # NoNode
                THEN parse_instagram_date(GetText(date_div)) ELSE None
    IN IF date # None THEN date ELSE PageScanRows(AllRows(posts, 1), 1)

---------------------------------------------------------------------------
(* find_images_in_html: one record per post *)

\* variant: the scan goes on when the chosen value does not parse
RECURSIVE ScanRows_NoBreak(_, _)
ScanRows_NoBreak(rows, i) ==
    IF i > Len(rows) THEN None
    ELSE LET row == rows[i]
             value_div == ValueDiv(row)
         IN IF row.ncells >= 2 /\ row.label_div # NoNode /\ value_div # NoNode
               /\ GetText(row.label_div) = Lit("Date taken")
               /\ GetText(value_div) # Lit("")
               /\ parse_instagram_date(GetText(value_div)) # None
            THEN parse_instagram_date(GetText(value_div))
            ELSE ScanRows_NoBreak(rows, i + 1)

\* the loop of lines 104-120; break at the first 'Date taken' row with a value
RECURSIVE ScanRows(_, _)
ScanRows(rows, i) ==
    IF i > Len(rows) THEN None
    ELSE LET row == rows[i]
             label_div == row.label_div
             value_div == ValueDiv(row)
         IN IF row.ncells >= 2 /\ label_div # NoNode /\ value_div # NoNode
               /\ GetText(label_div) = Lit("Date taken")
               /\ GetText(value_div) # Lit("")
            THEN parse_instagram_date(GetText(value_div))
            ELSE ScanRows(rows, i + 1)

\* variant: the table is consulted first
PostDate_TableFirst(post) ==
    LET date == ScanRows(post.rows, 1)
    IN IF date = None
       THEN (IF post.date_div # NoNode
             THEN parse_instagram_date(GetText(post.date_div)) ELSE None)
       ELSE date

\* lines 95-120: the date of one post
PostDate(post) ==
    LET date == IF post.date_div # NoNode
                THEN parse_instagram_date(GetText(post.date_div)) ELSE None
    IN IF date = None THEN ScanRows(post.rows, 1) ELSE date

Marker == "your_instagram_activity"

\* path_parts.index(x): the first position of x, 0 standing for ValueError
RECURSIVE IndexOf(_, _, _)
IndexOf(parts, x, i) ==
    IF i > Len(parts) THEN 0
    ELSE IF parts[i] = x THEN i ELSE IndexOf(parts, x, i + 1)

\* variant: the marker segment is kept in the root
RootPath_WithMarker(path_parts, activity_idx) == SubSeq(path_parts, 1, activity_idx)

\* Path(*path_parts[:activity_idx])
RootPath(path_parts, activity_idx) == SubSeq(path_parts, 1, activity_idx - 1)

\* lines 128-140: the resolved path of a media reference, or None
ResolvePath(path, img_path, fsys) ==
    LET activity_idx == IndexOf(path, Marker, 1)
        full_path == RootPath(path, activity_idx) \o img_path
    IN IF activity_idx = 0 THEN None
       ELSE IF Exists(fsys, full_path) THEN full_path ELSE None

\* variant: the date is not required
HasImage(post, date) ==
    post.img_tag # NoNode /\ post.img_tag.hasSrc /\ post.img_tag.src # <<>>

\* line 124: the post has an image with a reference, and a date
HasImageAndDate(post, date) ==
    post.img_tag # NoNode /\ post.img_tag.hasSrc /\ post.img_tag.src # <<>>
    /\ date # None

\* lines 93-140, one iteration: what the post appends to images_with_dates
PostRecords(post, path, fsys) ==
    LET date == PostDate(post)
    IN IF HasImageAndDate(post, date)
       THEN LET full_path == ResolvePath(path, post.img_tag.src, fsys)
            IN IF full_path # None
               THEN << [path |-> full_path, date |-> date] >>
               ELSE <<>>
       ELSE <<>>

RECURSIVE FindImages(_, _, _, _)
FindImages(posts, path, fsys, i) ==
    IF i > Len(posts) THEN <<>>
    ELSE PostRecords(posts[i], path, fsys) \o FindImages(posts, path, fsys, i + 1)

find_images_in_html(posts, path, fsys) == FindImages(posts, path, fsys, 1)

---------------------------------------------------------------------------
(* Files and their embedded metadata *)

Undecodable == [kind |-> "undecodable"]     \* piexif.load raises on it

\* a decoded metadata block; a tag that is not set is None.  dumpable tells
\* whether piexif.dump accepts the block's other tags.
ExifBlock(dt, dto, dtd, gps, dumpable) ==
    [kind |-> "block",
     zeroth |-> [DateTime |-> dt],
     Exif |-> [DateTimeOriginal |-> dto, DateTimeDigitized |-> dtd],
     GPS |-> gps, first |-> "empty", dumpable |-> dumpable]

\* {"0th": {}, "Exif": {}, "GPS": {}, "1st": {}}
EmptyExifDict == ExifBlock(None, None, None, "empty", TRUE)

\* pix: "orig" the pixels as exported, "reenc" re-encoded by img.save,
\* "part" a file whose writing stopped half way.  valid: Image.open accepts it.
File(pix, valid, exif, mtime, atime) ==
    [pix |-> pix, valid |-> valid, exif |-> exif, mtime |-> mtime, atime |-> atime]

\* a file whose writing was interrupted, stamped with the time of writing
PartialFile == File("part", FALSE, Undecodable, 1, 1)

\* the content of a file, without its filesystem timestamps
Bytes(f) == IF f = NoFile THEN NoFile
            ELSE [pix |-> f.pix, valid |-> f.valid, exif |-> f.exif]

\* f"{image_path}.backup"
BackupPath(p) == [p EXCEPT ![Len(p)] = p[Len(p)] \o ".backup"]

\* shutil.copy2(src, dst) when it succeeds: content and timestamps
CopyFile(fsys, src, dst) == [fsys EXCEPT ![dst] = fsys[src]]

\* variant: the source is copied, not moved
MoveFile_KeepsSource(fsys, src, dst) == [fsys EXCEPT ![dst] = fsys[src]]

\* shutil.move(src, dst) when it succeeds: dst is replaced, src is gone
MoveFile(fsys, src, dst) == [fsys EXCEPT ![dst] = fsys[src], ![src] = NoFile]

\* variant: DateTimeDigitized is left as it was
SetExifFields_NoDigitized(d, exif_date) ==
    [d EXCEPT !.zeroth.DateTime = exif_date,
              !.Exif.DateTimeOriginal = exif_date]

\* lines 168-170
SetExifFields(d, exif_date) ==
    [d EXCEPT !.zeroth.DateTime = exif_date,
              !.Exif.DateTimeOriginal = exif_date,
              !.Exif.DateTimeDigitized = exif_date]

\* img.save(image_path, exif=exif_bytes, quality=95) when it succeeds
SavedFile(d) == File("reenc", TRUE, d, 1, 1)

\* os.utime(image_path, (timestamp, timestamp))
Utime(f, timestamp) == [f EXCEPT !.mtime = timestamp, !.atime = timestamp]

---------------------------------------------------------------------------
(* update_image_metadata, one action per step *)

wvars == <<image_path, date_taken>>
hist == <<orig_file, calls, resolved, attempts>>
mainvars == <<html_files, file_idx, success_count, html_file_path, html_content,
              images_with_dates, rec_idx, doc_success, page_date, pc>>

backup_path == BackupPath(image_path)

\* the except clause is entered from the step that raised
Raise(step) == /\ wpc' = "handler"
               /\ fail_step' = step

\* lines 146-148
W_Exists ==
    /\ wpc = "exists"
    /\ IF Exists(fs, image_path)
       THEN wpc' = "copy" /\ UNCHANGED result
       ELSE wpc' = "returned" /\ result' = FALSE
    /\ UNCHANGED <<fs, exif_dict, fail_step, true_returns, wvars, hist, mainvars>>

\* line 153.  copy2 writes the data and then the timestamps; when it raises,
\* the backup is as it was, or half written, or complete but for its timestamps
W_Copy ==
    /\ wpc = "copy"
    /\ \/ /\ fs' = CopyFile(fs, image_path, backup_path)
          /\ wpc' = "open"
          /\ UNCHANGED fail_step
       \/ /\ Raise("copy")
          /\ UNCHANGED fs
       \/ /\ Raise("copy")
          /\ fs' = [fs EXCEPT ![backup_path] = PartialFile]
       \/ /\ Raise("copy")
          /\ fs' = [fs EXCEPT ![backup_path] =
                        [fs[image_path] EXCEPT !.mtime = 1, !.atime = 1]]
    /\ UNCHANGED <<exif_dict, result, true_returns, wvars, hist, mainvars>>

\* line 156
W_Open ==
    /\ wpc = "open"
    /\ \/ /\ fs[image_path].valid
          /\ wpc' = "load"
          /\ UNCHANGED fail_step
       \/ Raise("open")
    /\ UNCHANGED <<fs, exif_dict, result, true_returns, wvars, hist, mainvars>>

\* lines 159-170: piexif.load, or the empty block when it raises, then the
\* three date tags
W_Load ==
    /\ wpc = "load"
    /\ \/ /\ fs[image_path].exif # Undecodable
          /\ exif_dict' = SetExifFields(fs[image_path].exif, Strftime(date_taken))
       \/ exif_dict' = SetExifFields(EmptyExifDict, Strftime(date_taken))
    /\ wpc' = "dump"
    /\ UNCHANGED <<fs, result, fail_step, true_returns, wvars, hist, mainvars>>

\* line 173
W_Dump ==
    /\ wpc = "dump"
    /\ \/ /\ exif_dict.dumpable
          /\ wpc' = "save"
          /\ UNCHANGED fail_step
       \/ /\ ~exif_dict.dumpable
          /\ Raise("dump")
    /\ UNCHANGED <<fs, exif_dict, result, true_returns, wvars, hist, mainvars>>

\* line 176.  When save raises, the target is untouched or half written
W_Save ==
    /\ wpc = "save"
    /\ \/ /\ fs' = [fs EXCEPT ![image_path] = SavedFile(exif_dict)]
          /\ wpc' = "utime"
          /\ UNCHANGED fail_step
       \/ /\ Raise("save")
          /\ UNCHANGED fs
       \/ /\ Raise("save")
          /\ fs' = [fs EXCEPT ![image_path] = PartialFile]
    /\ UNCHANGED <<exif_dict, result, true_returns, wvars, hist, mainvars>>

\* lines 179-180
W_Utime ==
    /\ wpc = "utime"
    /\ \/ /\ fs' = [fs EXCEPT ![image_path] =
                        Utime(fs[image_path], Timestamp(date_taken))]
          /\ wpc' = "remove"
          /\ UNCHANGED fail_step
       \/ /\ Raise("utime")
          /\ UNCHANGED fs
    /\ UNCHANGED <<exif_dict, result, true_returns, wvars, hist, mainvars>>

\* lines 183-186
W_Remove ==
    /\ wpc = "remove"
    /\ \/ /\ fs' = [fs EXCEPT ![backup_path] = NoFile]
          /\ wpc' = "returned"
          /\ result' = TRUE
          /\ true_returns' = true_returns + 1
          /\ UNCHANGED fail_step
       \/ /\ Raise("remove")
          /\ UNCHANGED <<fs, result, true_returns>>
    /\ UNCHANGED <<exif_dict, wvars, hist, mainvars>>

\* lines 188-193.  When shutil.move raises, the exception leaves the function;
\* the backup is still there and the target is as it was, or half written
\* (the copy that move falls back on), or restored (only the unlink failed)
W_Handler ==
    /\ wpc = "handler"
    /\ \/ /\ ~Exists(fs, backup_path)
          /\ wpc' = "returned"
          /\ result' = FALSE
          /\ UNCHANGED fs
       \/ /\ Exists(fs, backup_path)
          /\ fs' = MoveFile(fs, backup_path, image_path)
          /\ wpc' = "returned"
          /\ result' = FALSE
       \/ /\ Exists(fs, backup_path)
          /\ wpc' = "raised"
          /\ UNCHANGED <<fs, result>>
       \/ /\ Exists(fs, backup_path)
          /\ wpc' = "raised"
          /\ fs' = [fs EXCEPT ![image_path] = PartialFile]
          /\ UNCHANGED result
       \/ /\ Exists(fs, backup_path)
          /\ wpc' = "raised"
          /\ fs' = CopyFile(fs, backup_path, image_path)
          /\ UNCHANGED result
    /\ UNCHANGED <<exif_dict, fail_step, true_returns, wvars, hist, mainvars>>

Writer == \/ W_Exists \/ W_Copy \/ W_Open \/ W_Load \/ W_Dump
          \/ W_Save \/ W_Utime \/ W_Remove \/ W_Handler

---------------------------------------------------------------------------
(* Inputs *)

SeqsUpTo(S, n) == UNION {[1..k -> S] : k \in 0..n}

DateA == ExifStr(2020, 1, 2, 0, 0, 0)             \* "2020:01:02 00:00:00"
DateB == ExifStr(2019, 5, 5, 5, 5, 5)             \* "2019:05:05 05:05:05"
DispA == DispStr("Jan", 1, 2020, 12, 0, "am")     \* "Jan 01, 2020 12:00 am"
DispB == DispStr("Aug", 6, 2012, 4, 13, "pm")     \* "Aug 06, 2012 4:13 pm"
BadDate == ExifStr(2021, 2, 30, 10, 30, 0)        \* "2021:02:30 10:30:00"
NotADate == Lit("not a date")

DateTaken == Div(<<Lit("Date taken")>>)

ExportRoot == <<"/", "export">>
MediaA == <<"media", "a.jpg">>
MediaB == <<"media", "b.jpg">>
MediaMissing == <<"media", "missing.jpg">>
PathA == ExportRoot \o MediaA
PathB == ExportRoot \o MediaB
Paths == {PathA, PathB, BackupPath(PathA), BackupPath(PathB)}

DocInExport == ExportRoot \o <<Marker, "content", "posts_1.html">>
DocOutside == ExportRoot \o <<"content", "posts_1.html">>
DocNested == ExportRoot \o <<Marker, "old", Marker, "posts_1.html">>
DocRelative == <<Marker, "content", "posts_1.html">>

\* images as an export holds them
GoodImage == File("orig", TRUE, ExifBlock(None, DateB, None, "fix", TRUE), 0, 0)
NoExifImage == File("orig", TRUE, Undecodable, 0, 0)
OddTagImage == File("orig", TRUE, ExifBlock(DateB, None, None, "empty", FALSE), 0, 0)
NotAnImage == File("orig", FALSE, Undecodable, 0, 0)
InitImages == {GoodImage, NoExifImage, OddTagImage, NotAnImage}

InitFs(a, b) == [p \in Paths |-> IF p = PathA THEN a ELSE IF p = PathB THEN b
                                 ELSE NoFile]

\* the documents a run reads
RunPosts == { Post(Div(<<DispA>>), <<>>, Img(TRUE, MediaA)),
              Post(NoNode, <<Row(2, DateTaken, TRUE, Div(<<DateB>>))>>,
                   Img(TRUE, MediaB)),
              Post(Div(<<NotADate>>), <<>>, Img(TRUE, MediaA)) }
RunDocs == SeqsUpTo(RunPosts, MaxRecs)
RunDocPaths == {DocInExport, DocOutside}

---------------------------------------------------------------------------
(* process_html_file and the loop of main *)

locals == <<html_content, images_with_dates, rec_idx, doc_success>>
idle == <<wpc, image_path, date_taken, exif_dict, result, orig_file, fail_step,
          calls, true_returns>>

\* lines 283-284: the next document is handed to process_html_file
M_NextDoc ==
    /\ pc = "main"
    /\ file_idx < Len(html_files)
    /\ file_idx' = file_idx + 1
    /\ html_file_path' = html_files[file_idx + 1]
    /\ attempts' = [attempts EXCEPT ![file_idx + 1] = @ + 1]
    /\ pc' = "read"
    /\ UNCHANGED <<fs, html_files, success_count, locals, page_date, resolved, idle>>

\* lines 288-289: the loop is over, the summary is printed
M_Done ==
    /\ pc = "main"
    /\ file_idx = Len(html_files)
    /\ pc' = "done"
    /\ UNCHANGED <<fs, html_files, file_idx, success_count, html_file_path, locals,
                   page_date, resolved, attempts, idle>>

\* lines 199-201 and 220-222: the document is read, or reading raises and
\* process_html_file returns 0
P_Read ==
    /\ pc = "read"
    /\ \/ /\ \E doc \in RunDocs : html_content' = doc
          /\ pc' = "locate"
       \/ /\ pc' = "main"
          /\ UNCHANGED html_content
    /\ UNCHANGED <<fs, html_files, file_idx, success_count, html_file_path,
                   images_with_dates, rec_idx, doc_success, page_date, resolved,
                   attempts, idle>>

\* lines 204-213
P_Locate ==
    /\ pc = "locate"
    /\ images_with_dates' = find_images_in_html(html_content, html_file_path, fs)
    /\ resolved' = resolved + Len(images_with_dates')
    /\ doc_success' = 0
    /\ IF images_with_dates' = <<>>
       THEN pc' = "main" /\ rec_idx' = 0 /\ html_content' = <<>>
       ELSE pc' = "write" /\ rec_idx' = 1 /\ UNCHANGED html_content
    /\ UNCHANGED <<fs, html_files, file_idx, success_count, html_file_path,
                   page_date, attempts, idle>>

\* lines 214-215: update_image_metadata is called on the next record
P_Call ==
    /\ pc = "write"
    /\ rec_idx <= Len(images_with_dates)
    /\ image_path' = images_with_dates[rec_idx].path
    /\ date_taken' = images_with_dates[rec_idx].date
    /\ orig_file' = fs[images_with_dates[rec_idx].path]
    /\ fail_step' = "none"
    /\ calls' = calls + 1
    /\ wpc' = "exists"
    /\ pc' = "wait"
    /\ UNCHANGED <<fs, html_files, file_idx, success_count, html_file_path, locals,
                   page_date, exif_dict, result, true_returns, resolved, attempts>>

\* the locals of a call are gone once it is over
CallOver ==
    /\ wpc' = "idle"
    /\ image_path' = <<>>
    /\ date_taken' = None
    /\ exif_dict' = EmptyExifDict
    /\ result' = FALSE
    /\ orig_file' = NoFile
    /\ fail_step' = "none"

ProcessOver ==
    /\ pc' = "main"
    /\ html_content' = <<>>
    /\ images_with_dates' = <<>>
    /\ rec_idx' = 0
    /\ doc_success' = 0

\* lines 215-216: the call returned
P_Return ==
    /\ pc = "wait"
    /\ wpc = "returned"
    /\ doc_success' = IF result THEN doc_success + 1 ELSE doc_success
    /\ rec_idx' = rec_idx + 1
    /\ CallOver
    /\ pc' = "write"
    /\ UNCHANGED <<fs, html_files, file_idx, success_count, html_file_path,
                   html_content, images_with_dates, page_date, calls,
                   true_returns, resolved, attempts>>

\* lines 220-222: the call raised; the exception is caught by the except
\* clause of process_html_file, which returns 0
P_Except ==
    /\ pc = "wait"
    /\ wpc = "raised"
    /\ CallOver
    /\ ProcessOver
    /\ UNCHANGED <<fs, html_files, file_idx, success_count, html_file_path,
                   page_date, calls, true_returns, resolved, attempts>>

\* line 218 and lines 285-286: the loop over the records is over
P_Finish ==
    /\ pc = "write"
    /\ rec_idx > Len(images_with_dates)
    /\ success_count' = success_count + doc_success
    /\ ProcessOver
    /\ UNCHANGED <<fs, html_files, file_idx, html_file_path, page_date,
                   resolved, attempts, idle>>

Init ==
    /\ \E a \in InitImages, b \in {GoodImage, NoExifImage} : fs = InitFs(a, b)
    /\ html_files \in SeqsUpTo(RunDocPaths, MaxDocs) \ {<<>>}
    /\ file_idx = 0
    /\ success_count = 0
    /\ html_file_path = <<>>
    /\ html_content = <<>>
    /\ images_with_dates = <<>>
    /\ rec_idx = 0
    /\ doc_success = 0
    /\ page_date = None
    /\ pc = "main"
    /\ wpc = "idle"
    /\ image_path = <<>>
    /\ date_taken = None
    /\ exif_dict = EmptyExifDict
    /\ result = FALSE
    /\ orig_file = NoFile
    /\ fail_step = "none"
    /\ calls = 0
    /\ true_returns = 0
    /\ resolved = 0
    /\ attempts = [i \in 1..Len(html_files) |-> 0]

Next == \/ M_NextDoc \/ M_Done \/ P_Read \/ P_Locate \/ P_Call
        \/ P_Return \/ P_Except \/ P_Finish \/ Writer

Spec == Init /\ [][Next]_vars

---------------------------------------------------------------------------
(* update_image_metadata called directly, on a target that may be missing *)

CallDates == {datetime(2021, 3, 15, 10, 30, 0), datetime(2012, 8, 6, 16, 13, 0)}

D_Call ==
    /\ pc = "direct"
    /\ wpc \in {"idle", "returned", "raised"}
    /\ calls < MaxCalls
    /\ image_path' = PathA
    /\ \E d \in CallDates : date_taken' = d
    /\ orig_file' = fs[PathA]
    /\ fail_step' = "none"
    /\ calls' = calls + 1
    /\ wpc' = "exists"
    /\ UNCHANGED <<fs, exif_dict, result, true_returns, resolved, attempts, mainvars>>

InitWriter ==
    /\ \E a \in InitImages \cup {NoFile} : fs = InitFs(a, NoFile)
    /\ html_files = <<>>
    /\ file_idx = 0
    /\ success_count = 0
    /\ html_file_path = <<>>
    /\ html_content = <<>>
    /\ images_with_dates = <<>>
    /\ rec_idx = 0
    /\ doc_success = 0
    /\ page_date = None
    /\ pc = "direct"
    /\ wpc = "idle"
    /\ image_path = <<>>
    /\ date_taken = None
    /\ exif_dict = EmptyExifDict
    /\ result = FALSE
    /\ orig_file = NoFile
    /\ fail_step = "none"
    /\ calls = 0
    /\ true_returns = 0
    /\ resolved = 0
    /\ attempts = <<>>

NextWriter == D_Call \/ Writer

SpecWriter == InitWriter /\ [][NextWriter]_vars

---------------------------------------------------------------------------
(* The locator applied to bounded documents *)

LabelNodes == { DateTaken,
                Div(<<WS, Lit("Date taken"), WS>>),
                Div(<<Lit("Latitude")>>) }
ValueNodes == { NoNode, Div(<<WS>>), Div(<<DateA>>), Div(<<DateB>>),
                Div(<<BadDate>>) }
Rows == {Row(2, l, TRUE, v) : l \in LabelNodes, v \in ValueNodes}
        \cup { Row(1, DateTaken, TRUE, Div(<<DateA>>)),
               Row(2, DateTaken, FALSE, Div(<<DateA>>)),
               Row(2, NoNode, TRUE, Div(<<DateA>>)) }
DateDivs == {NoNode, Div(<<WS, DispB>>), Div(<<NotADate>>)}
ImgTags == { NoNode, Img(FALSE, <<>>), Img(TRUE, <<>>), Img(TRUE, MediaA),
             Img(TRUE, MediaMissing) }

\* posts with a full table, and plainer posts for documents of several posts
TablePosts == {Post(d, t, i) : d \in DateDivs, t \in SeqsUpTo(Rows, MaxRows),
                               i \in {NoNode, Img(TRUE, MediaA)}}
PlainPosts == {Post(d, t, i) :
                  d \in {NoNode, Div(<<DispA>>), Div(<<NotADate>>)},
                  t \in {<<>>, <<Row(2, DateTaken, TRUE, Div(<<DateB>>))>>},
                  i \in ImgTags}
Docs == {<<p>> : p \in TablePosts} \cup SeqsUpTo(PlainPosts, MaxPosts)
DocPaths == {DocInExport, DocOutside, DocNested, DocRelative}

\* find_images_in_html(html_content, html_file_path)
L_FindImages ==
    /\ pc = "locate"
    /\ images_with_dates' = find_images_in_html(html_content, html_file_path, fs)
    /\ pc' = "find_date"
    /\ UNCHANGED <<fs, html_files, file_idx, success_count, html_file_path,
                   html_content, rec_idx, doc_success, page_date, resolved,
                   attempts, idle>>

\* find_date_in_html(html_content)
L_FindDate ==
    /\ pc = "find_date"
    /\ page_date' = find_date_in_html(html_content)
    /\ pc' = "located"
    /\ UNCHANGED <<fs, html_files, file_idx, success_count, html_file_path, locals,
                   resolved, attempts, idle>>

InitLocator ==
    /\ \E m \in {GoodImage, NoFile} :
          fs = [p \in Paths \cup {MediaA} |->
                   IF p = PathA THEN GoodImage ELSE IF p = MediaA THEN m ELSE NoFile]
    /\ html_content \in Docs
    /\ html_file_path \in DocPaths
    /\ html_files = <<html_file_path>>
    /\ file_idx = 1
    /\ success_count = 0
    /\ images_with_dates = <<>>
    /\ rec_idx = 0
    /\ doc_success = 0
    /\ page_date = None
    /\ pc = "locate"
    /\ wpc = "idle"
    /\ image_path = <<>>
    /\ date_taken = None
    /\ exif_dict = EmptyExifDict
    /\ result = FALSE
    /\ orig_file = NoFile
    /\ fail_step = "none"
    /\ calls = 0
    /\ true_returns = 0
    /\ resolved = 0
    /\ attempts = <<0>>

NextLocator == L_FindImages \/ L_FindDate

SpecLocator == InitLocator /\ [][NextLocator]_vars

---------------------------------------------------------------------------
(* The terms of the locator's contract *)

\* the parsed text of the post's display-date block, None without one
DisplayDate(post) ==
    IF post.date_div = NoNode THEN None
    ELSE parse_instagram_date(GetText(post.date_div))

\* a row with two cells, the label "Date taken" and a value with text
Qualifies(row) ==
    /\ row.ncells >= 2
    /\ row.label_div # NoNode
    /\ GetText(row.label_div) = Lit("Date taken")
    /\ row.value_container
    /\ row.value_div # NoNode
    /\ GetText(row.value_div) # Lit("")

\* the parsed value of the topmost qualifying row, None without one
TableDate(rows) ==
    IF \E k \in 1..Len(rows) : Qualifies(rows[k])
    THEN LET k == CHOOSE k \in 1..Len(rows) :
                    /\ Qualifies(rows[k])
                    /\ \A j \in 1..(k - 1) : ~Qualifies(rows[j])
         IN parse_instagram_date(GetText(rows[k].value_div))
    ELSE None

ContractDate(post) ==
    IF DisplayDate(post) # None THEN DisplayDate(post) ELSE TableDate(post.rows)

HasReference(post) ==
    post.img_tag # NoNode /\ post.img_tag.hasSrc /\ post.img_tag.src # <<>>

HasMarker(path) == \E i \in 1..Len(path) : path[i] = Marker

\* the segments above the first marker segment, joined with the reference
ContractPath(path, src) ==
    LET m == CHOOSE i \in 1..Len(path) :
                 path[i] = Marker /\ \A j \in 1..(i - 1) : path[j] # Marker
    IN [k \in 1..(m - 1) |-> path[k]] \o src

Resolves(post) ==
    /\ HasMarker(html_file_path)
    /\ Exists(fs, ContractPath(html_file_path, post.img_tag.src))

Emitting(post) == HasReference(post) /\ ContractDate(post) # None /\ Resolves(post)

\* the position, in the result, of the record of post i
Position(i) == Cardinality({j \in 1..i : Emitting(html_content[j])})

Located == pc \in {"find_date", "located"}

\* the first display-date block of the page
PageDateDiv ==
    IF \E i \in 1..Len(html_content) : html_content[i].date_div # NoNode
    THEN html_content[CHOOSE i \in 1..Len(html_content) :
                         /\ html_content[i].date_div # NoNode
                         /\ \A j \in 1..(i - 1) : html_content[j].date_div = NoNode
                     ].date_div
    ELSE NoNode

PageDisplayDate ==
    IF PageDateDiv = NoNode THEN None ELSE parse_instagram_date(GetText(PageDateDiv))

---------------------------------------------------------------------------
(* Claims about the locator, checked under SpecLocator *)

\* C7: a post whose display-date block and whose 'Date taken' row both parse
\* gets the parsed display date, never the table value; the page-level lookup
\* likewise returns the page's display date whenever it parses.
C7_DisplayDateWins ==
    /\ Located =>
          \A i \in 1..Len(html_content) :
             LET post == html_content[i]
             IN (DisplayDate(post) # None /\ TableDate(post.rows) # None
                 /\ Emitting(post))
                => /\ Position(i) <= Len(images_with_dates)
                   /\ images_with_dates[Position(i)].date = DisplayDate(post)
    /\ (pc = "located" /\ PageDisplayDate # None) => page_date = PageDisplayDate

C7_Witness ==
    /\ pc = "located"
    /\ \E i \in 1..Len(html_content) :
          LET post == html_content[i]
          IN /\ DisplayDate(post) # None
             /\ TableDate(post.rows) # None
             /\ TableDate(post.rows) # DisplayDate(post)
             /\ Emitting(post)
             /\ images_with_dates[Position(i)].date = DisplayDate(post)
             /\ page_date = DisplayDate(post)

\* C8: without a parsed display date, the date is the parsed value of the
\* topmost row labelled exactly "Date taken" that has a value with text; the
\* scan stops there, so when that value does not parse the post has no date,
\* whatever the rows below hold; rows with another label or without a value
\* are passed over.
C8_FirstDateTakenRow ==
    /\ Located =>
          \A i \in 1..Len(html_content) :
             LET post == html_content[i]
             IN (DisplayDate(post) = None /\ HasReference(post) /\ Resolves(post))
                => IF TableDate(post.rows) = None
                   THEN Position(i) = (IF i = 1 THEN 0 ELSE Position(i - 1))
                   ELSE /\ Position(i) <= Len(images_with_dates)
                        /\ Position(i) = (IF i = 1 THEN 0 ELSE Position(i - 1)) + 1
                        /\ images_with_dates[Position(i)].date = TableDate(post.rows)
    /\ Located =>
          Len(images_with_dates) = Cardinality({j \in 1..Len(html_content) :
                                                   Emitting(html_content[j])})
    /\ (pc = "located" /\ PageDisplayDate = None)
          => page_date = TableDate(AllRows(html_content, 1))

\* the topmost qualifying row does not parse, a lower one would: no record
C8_Witness ==
    /\ pc = "located"
    /\ Len(html_content) = 1
    /\ LET post == html_content[1]
       IN /\ DisplayDate(post) = None
          /\ HasReference(post) /\ Resolves(post)
          /\ Len(post.rows) >= 2
          /\ Qualifies(post.rows[1])
          /\ parse_instagram_date(GetText(post.rows[1].value_div)) = None
          /\ Qualifies(post.rows[2])
          /\ parse_instagram_date(GetText(post.rows[2].value_div)) # None
          /\ images_with_dates = <<>>
          /\ page_date = None

\* C9: the result holds, in document order, exactly one record for every post
\* that has a media reference, a parsed date and a resolvable file, and
\* nothing for any other post.
C9_OneRecordPerPost ==
    Located =>
       /\ Len(images_with_dates) = Cardinality({j \in 1..Len(html_content) :
                                                   Emitting(html_content[j])})
       /\ Len(images_with_dates) <= Cardinality({j \in 1..Len(html_content) :
                                     /\ HasReference(html_content[j])
                                     /\ ContractDate(html_content[j]) # None})
       /\ \A i \in 1..Len(html_content) :
             Emitting(html_content[i]) =>
                images_with_dates[Position(i)] =
                   [path |-> ContractPath(html_file_path, html_content[i].img_tag.src),
                    date |-> ContractDate(html_content[i])]

\* a post with an image and no date, then a post that yields a record
C9_Witness ==
    /\ pc = "located"
    /\ Len(html_content) = 2
    /\ HasReference(html_content[1])
    /\ ContractDate(html_content[1]) = None
    /\ Emitting(html_content[2])
    /\ Len(images_with_dates) = 1

\* C10: every record's path is the export root (the segments above the marker
\* segment) joined with a post's reference, the document path holds the
\* marker and the file exists; a post whose file is missing, or any post of a
\* document outside an export, is dropped while the other posts are kept.
C10_PathResolution ==
    Located =>
       /\ \A k \in 1..Len(images_with_dates) :
             /\ HasMarker(html_file_path)
             /\ Exists(fs, images_with_dates[k].path)
             /\ \E i \in 1..Len(html_content) :
                   /\ HasReference(html_content[i])
                   /\ images_with_dates[k].path =
                         ContractPath(html_file_path, html_content[i].img_tag.src)
       /\ ~HasMarker(html_file_path) => images_with_dates = <<>>
       /\ Len(images_with_dates) =
             Cardinality({i \in 1..Len(html_content) :
                            /\ HasReference(html_content[i])
                            /\ PostDate(html_content[i]) # None
                            /\ Resolves(html_content[i])})

\* a dated post whose file is missing, then a post that resolves
C10_Witness ==
    /\ pc = "located"
    /\ Len(html_content) = 2
    /\ HasReference(html_content[1])
    /\ ContractDate(html_content[1]) # None
    /\ ~Resolves(html_content[1])
    /\ Len(images_with_dates) = 1
    /\ images_with_dates[1].path = PathA

---------------------------------------------------------------------------
(* Claims about update_image_metadata, checked under SpecWriter *)

Ended == wpc \in {"returned", "raised"}

\* C1: when a step after the backup copy raises (opening the image, dumping
\* the metadata, saving, setting the timestamps), the call returns False and
\* the target's bytes are those it had before the call.
C1_FailureRestores ==
    (Ended /\ fail_step \in {"open", "dump", "save", "utime"})
       => /\ wpc = "returned"
          /\ result = FALSE
          /\ Bytes(fs[image_path]) = Bytes(orig_file)

\* C2: when the call has returned, with True or with False, whatever step
\* failed, the target has no '.backup' sibling.
C2_NoBackupAfterReturn ==
    wpc = "returned" => ~Exists(fs, BackupPath(image_path))

\* the deletion of the backup failed and the call returned False
C2_Witness ==
    /\ wpc = "returned"
    /\ result = FALSE
    /\ fail_step = "remove"
    /\ ~Exists(fs, BackupPath(image_path))

\* C3: from the start of a call until it has fully succeeded, the target or
\* its backup holds the bytes the target had before the call.
C3_OriginalRecoverable ==
    (wpc # "idle" /\ orig_file # NoFile /\ ~(wpc = "returned" /\ result = TRUE))
       => \/ Bytes(fs[image_path]) = Bytes(orig_file)
          \/ Bytes(fs[BackupPath(image_path)]) = Bytes(orig_file)

\* C4: when the call returns True, DateTime, DateTimeOriginal and
\* DateTimeDigitized are the timestamp written as 'YYYY:MM:DD HH:MM:SS', the
\* modification and access times are that instant, and the backup is gone;
\* also when the metadata the file had could not be decoded.
C4_SuccessWritesDate ==
    (wpc = "returned" /\ result = TRUE)
       => LET f == fs[image_path]
              text == ExifStr(date_taken.year, date_taken.month, date_taken.day,
                              date_taken.hour, date_taken.minute, date_taken.second)
          IN /\ f # NoFile
             /\ f.exif # Undecodable
             /\ f.exif.zeroth.DateTime = text
             /\ f.exif.Exif.DateTimeOriginal = text
             /\ f.exif.Exif.DateTimeDigitized = text
             /\ parse_instagram_date(f.exif.zeroth.DateTime) = date_taken
             /\ f.mtime = Timestamp(date_taken)
             /\ f.atime = Timestamp(date_taken)
             /\ ~Exists(fs, BackupPath(image_path))

\* success on a file whose metadata could not be decoded
C4_Witness ==
    /\ wpc = "returned"
    /\ result = TRUE
    /\ orig_file # NoFile
    /\ orig_file.exif = Undecodable
    /\ fs[image_path].exif.Exif.DateTimeDigitized = Strftime(date_taken)
    /\ fs[image_path].mtime = Timestamp(date_taken)

---------------------------------------------------------------------------
(* Claims about a run, checked under Spec *)

\* C5: at the end of a run every document was handed to process_html_file
\* exactly once and every located record was handed to
\* update_image_metadata.
C5_EveryRecordWritten ==
    pc = "done" => /\ \A i \in 1..Len(html_files) : attempts[i] = 1
                   /\ calls = resolved

\* C6: at the end of a run the reported number of updated files is the
\* number of calls of update_image_metadata that returned True, and the
\* reported number of documents is the number of documents enumerated.
C6_SummaryCounts ==
    pc = "done" => /\ success_count = true_returns
                   /\ file_idx = Len(html_files)

====
